---- MODULE Spec2Model ----
(***************************************************************************)
(* Model of raspadorlegislativo/spiders/senado.py: the SenadoSpider bill   *)
(* enrichment chain (list -> detail -> authorship -> text manifest -> PDF  *)
(* drain -> emit or discard).  Every callback of the spider is one action, *)
(* fired when the transport dispatches the response of an in-flight        *)
(* request; a fetch failure is one action as well.                         *)
(*                                                                         *)
(* A text blob is represented by the set of vocabulary keywords that occur *)
(* in it (or by "absent", Python's None); a keyword is a string, kept as a *)
(* sequence of characters so that ', '.join is a real concatenation.       *)
(* Record fields that no callback ever reads back (nome, ementa, local,    *)
(* apresentacao, url, palavras_chave_originais, meta['keywords']) are left *)
(* out of the state.                                                       *)
(***************************************************************************)
EXTENDS Naturals, Sequences, FiniteSets

VARIABLES
    started,    \* start_requests has been consumed by the engine
    inflight,   \* requests handed to the transport and not yet answered
    bill,       \* the data dicts built by parse_bill, by reference
    matchers,   \* settings.MATCHERS: the configured keywords ({} = no filtering)
    out,        \* per bill code: the Bill items handed to the output sink, in order
    fin,        \* per bill code: how often the finalization branch has run
    failed,     \* per bill code: a fetch of its chain failed
    crashed,    \* per bill code: a callback of its chain raised
    found,      \* per bill code: the matcher's results, over the detail texts and over all texts
    initq,      \* per bill code: the tuple parse_texts passed on (line 91), once it has
    npdf,       \* per bill code: number of parse_pdf invocations
    manifest,   \* the manifest response parse_texts was called with last, and for which bill
    start_year, \* date.fromisoformat(settings.START_DATE).year
    today_year, \* date.today().year
    yielded,    \* the requests start_requests yielded, in order
    event,      \* agenda feed: the Reuniao element AgendaSenadoSpider.parse looks at
    agenda      \* agenda feed: what parse has done with it

\* the variables of the agenda feed
agenda_vars == <<event, agenda>>

vars == <<started, inflight, bill, matchers, out, fin, failed, crashed,
          found, initq, npdf, manifest, start_year, today_year, yielded, agenda_vars>>

----------------------------------------------------------------------------
(* Bounds and input alphabets                                              *)

\* longest pending-text tuple handed to next_pdf_or_item
MaxQueue == 2
\* most document entries of a manifest response
MaxEntries == 2
\* most calendar years between the start date and today, both included
MaxYears == 3
\* longest raw text of an agenda event, in tokens
MaxText == 4
\* most invitees and most agenda items of an agenda event
MaxInvitees == 2
MaxItems == 2

\* settings.START_DATE's year and date.today().year of the run
StartYear == 2020
CurrentYear == 2020

Codes == {"c1", "c2"}
Urls == {"u1", "u2"}
Vocabulary == {<<"a">>, <<"b", "c">>}
\* values of a TipoDocumento tag; "absent" is an entry without the tag
Tipos == {"pdf", "PDF", "doc", "absent"}

\* SenadoSpider.subjects
subjects == <<"PLS", "PLC", "PEC">>

NoText == [present |-> FALSE, words |-> {}]
Texts == {NoText} \cup {[present |-> TRUE, words |-> w] : w \in SUBSET Vocabulary}

SeqsUpTo(S, n) == UNION {[1..k -> S] : k \in 0..n}

----------------------------------------------------------------------------
(* Python values                                                           *)

\* a str / set valued field: item['palavras_chave'] is a set until finalization
\* and the joined str afterwards
PySet(s) == [type |-> "set", set |-> s, str |-> <<>>]
PyStr(s) == [type |-> "str", set |-> {}, str |-> s]

SepStr == <<",", " ">>

RECURSIVE JoinSeq(_)
\* ', '.join over an already ordered sequence of strings
JoinSeq(ss) ==
    IF ss = <<>> THEN <<>>
    ELSE IF Len(ss) = 1 THEN ss[1]
    ELSE ss[1] \o SepStr \o JoinSeq(Tail(ss))

Orderings(S) == {f \in [1..Cardinality(S) -> S] : \A i, j \in DOMAIN f : i # j => f[i] # f[j]}

\* ', '.join(v): a set is iterated in an order the hash seeds decide, a str is
\* iterated character by character
PyJoin(v) ==
    IF v.type = "set"
    THEN {JoinSeq(o) : o \in Orderings(v.set)}
    ELSE {JoinSeq([i \in 1..Len(v.str) |-> <<v.str[i]>>])}

\* truthiness of a str / set value
Truthy(v) == IF v.type = "set" THEN v.set # {} ELSE v.str # <<>>

RECURSIVE SplitFrom(_, _)
\* s.split(', ') as a set, cur being the piece read so far
SplitFrom(s, cur) ==
    IF s = <<>> THEN {cur}
    ELSE IF Len(s) >= 2 /\ SubSeq(s, 1, 2) = SepStr
         THEN {cur} \cup SplitFrom(SubSeq(s, 3, Len(s)), <<>>)
         ELSE SplitFrom(Tail(s), Append(cur, s[1]))

\* the keywords a serialized palavras_chave string lists
Split(s) == IF s = <<>> THEN {} ELSE SplitFrom(s, <<>>)

\* the keywords a palavras_chave value holds, before or after serialization
KeywordsOf(v) == IF v.type = "set" THEN v.set ELSE Split(v.str)

----------------------------------------------------------------------------
(* Requests                                                                *)

NoRef == "none"
NoItem == [id_site |-> NoRef, palavras_chave |-> PySet({}), autoria |-> FALSE]

\* scrapy.Request(url, callback, meta=..., errback=...)
Request(callback, url, code, ref, urls, errback) ==
    [callback |-> callback, url |-> url, code |-> code, bill |-> ref,
     urls |-> urls, errback |-> errback]

\* the remote catalogue: the bill codes a (subject, year) list names
Catalog(subject, year) ==
    IF year # StartYear THEN {}
    ELSE IF subject = "PLS" THEN {"c1"}
    ELSE IF subject = "PLC" THEN {"c2"}
    ELSE {}

----------------------------------------------------------------------------
(* BillSpider helpers (raspadorlegislativo/spiders/__init__.py)            *)

\* matchKeywords(text): the configured keywords found in the text
MatchKeywords(text) == {k \in matchers : k \in text.words}

\* BillSpider.collect_keywords(data, text): union the matches into the set
collect_keywords(data, text) ==
    IF ~text.present THEN data
    ELSE [data EXCEPT !.palavras_chave =
              PySet(@.set \cup MatchKeywords(text))]

----------------------------------------------------------------------------
(* SenadoSpider                                                            *)

\* range(a, b): the numbers a .. b-1 in order
PyRange(a, b) == [i \in 1..(IF b > a THEN b - a ELSE 0) |-> a + i - 1]

\* itertools.product(xs, ys): the pairs, the first component varying slowest
Product(xs, ys) ==
    [i \in 1..(Len(xs) * Len(ys)) |->
        <<xs[((i - 1) \div Len(ys)) + 1], ys[((i - 1) % Len(ys)) + 1]>>]

\* the list request of one (year, subject) pair, line 38
ListRequest(year, subject) ==
    Request("parse", <<"list", subject, year>>, NoRef, NoRef, <<>>, "none")

\* mutant of StartRequestsSeq: the current year is left out of the range
StartRequestsSeq_Exclusive ==
    LET pairs == Product(PyRange(start_year, today_year), subjects)
    IN  [i \in DOMAIN pairs |-> ListRequest(pairs[i][1], pairs[i][2])]

\* start_requests, lines 33-38: the requests in the order they are yielded
StartRequestsSeq ==
    LET pairs == Product(PyRange(start_year, today_year + 1), subjects)
    IN  [i \in DOMAIN pairs |-> ListRequest(pairs[i][1], pairs[i][2])]

\* start_requests: one list request per (year, subject)
StartRequestsSet == {StartRequestsSeq[i] : i \in DOMAIN StartRequestsSeq}

\* parse: one detail request per code of the list, no errback
ParseRequests(codes) ==
    {Request("parse_bill", <<"detail", c>>, c, NoRef, <<>>, "none") : c \in codes}

\* mutant of BillRef: every response fills one dict shared by the spider
BillRef_Shared(code) == "c1"

\* parse_bill builds a new dict per response; the reference it is reached by
BillRef(code) == code

\* parse_bill, lines 57-69: the seeded record
ParseBillData(code, description, keywords) ==
    collect_keywords(
        collect_keywords(
            [id_site |-> code, palavras_chave |-> PySet({}), autoria |-> FALSE],
            description),
        keywords)

\* mutant of ParseBillRequests: authorship and manifest are requested side by side
ParseBillRequests_Parallel(code, ref) ==
    {Request("parse_authorship", <<"authorship", code>>, code, ref, <<>>, "error"),
     Request("parse_texts", <<"texts", code>>, code, ref, <<>>, "error")}

\* mutant of ParseBillRequests: the manifest is requested right away
ParseBillRequests_SkipAuthorship(code, ref) ==
    {Request("parse_texts", <<"texts", code>>, code, ref, <<>>, "error")}

\* parse_bill, lines 71-73: what the callback yields
ParseBillRequests(code, ref) ==
    {Request("parse_authorship", <<"authorship", code>>, code, ref, <<>>, "error")}

\* mutant of ParseAuthorshipData: the record is rebuilt, its keyword set emptied
ParseAuthorshipData_Reset(data) ==
    [id_site |-> data.id_site, palavras_chave |-> PySet({}), autoria |-> TRUE]

\* parse_authorship, lines 78-79
ParseAuthorshipData(data) == [data EXCEPT !.autoria = TRUE]

\* mutant of ParseAuthorshipRequests: the callback yields nothing
ParseAuthorshipRequests_Dropped(code, ref) == {}

\* parse_authorship, lines 81-83: what the callback yields
ParseAuthorshipRequests(code, ref) ==
    {Request("parse_texts", <<"texts", code>>, code, ref, <<>>, "error")}

\* mutant of ParsePdfData: the matches of this PDF replace the set
ParsePdfData_OnlyPdf(data, text) ==
    collect_keywords([data EXCEPT !.palavras_chave = PySet({})], text)

\* parse_pdf, lines 94-98
ParsePdfData(data, text) == collect_keywords(data, text)

\* the return value of next_pdf_or_item ("Bill", "None" or "Request") together
\* with the item dict it leaves behind
Outcome(kind, item, reqs) == [kind |-> kind, item |-> item, reqs |-> reqs]

\* mutant of Finalize: the keyword filter is never applied
Finalize_NoFilter(item) ==
    {Outcome("Bill", [item EXCEPT !.palavras_chave = PyStr(s)], {}) :
        s \in PyJoin(item.palavras_chave)}

\* mutant of Finalize: the keyword filter is applied although none is configured
Finalize_AlwaysFilter(item) ==
    {LET done == [item EXCEPT !.palavras_chave = PyStr(s)]
     IN  IF Truthy(done.palavras_chave) THEN Outcome("Bill", done, {})
         ELSE Outcome("None", done, {})
     : s \in PyJoin(item.palavras_chave)}

\* next_pdf_or_item, lines 106-114: serialize the keyword set, then emit or discard
Finalize(item) ==
    {LET done == [item EXCEPT !.palavras_chave = PyStr(s)]
     IN  IF matchers = {} THEN Outcome("Bill", done, {})
         ELSE IF Truthy(done.palavras_chave) THEN Outcome("Bill", done, {})
         ELSE Outcome("None", done, {})
     : s \in PyJoin(item.palavras_chave)}

\* mutant of NextRequest: the requested URL is not taken off the forwarded tuple
NextRequest_NoPop(item, code, ref, pending_texts) ==
    {Outcome("Request", item,
             {Request("parse_pdf", <<"pdf", Head(pending_texts)>>, code, ref,
                      pending_texts, "error")})}

\* mutant of NextRequest: every pending URL is requested at once
NextRequest_FanOut(item, code, ref, pending_texts) ==
    {Outcome("Request", item,
             {Request("parse_pdf", <<"pdf", pending_texts[i]>>, code, ref, <<>>, "error") :
                 i \in DOMAIN pending_texts})}

\* mutant of NextRequest: the last pending URL is requested first
NextRequest_Last(item, code, ref, pending_texts) ==
    {Outcome("Request", item,
             {Request("parse_pdf", <<"pdf", pending_texts[Len(pending_texts)]>>, code, ref,
                      SubSeq(pending_texts, 1, Len(pending_texts) - 1), "error")})}

\* mutant of NextRequest: the forwarded tuple loses its last URL, not its first
NextRequest_DropLast(item, code, ref, pending_texts) ==
    {Outcome("Request", item,
             {Request("parse_pdf", <<"pdf", Head(pending_texts)>>, code, ref,
                      SubSeq(pending_texts, 1, Len(pending_texts) - 1), "error")})}

\* next_pdf_or_item, lines 116-122: request the first pending URL, forward the rest
NextRequest(item, code, ref, pending_texts) ==
    {Outcome("Request", item,
             {Request("parse_pdf", <<"pdf", Head(pending_texts)>>, code, ref,
                      Tail(pending_texts), "error")})}

\* mutant of NextPdfOrItem: finalizes when one URL is still pending
NextPdfOrItem_FinalizeEarly(item, code, ref, pending_texts) ==
    IF Len(pending_texts) <= 1 THEN Finalize(item)
    ELSE NextRequest(item, code, ref, pending_texts)

\* next_pdf_or_item, lines 103-122: every outcome the call can have
NextPdfOrItem(item, code, ref, pending_texts) ==
    IF pending_texts = <<>> THEN Finalize(item)
    ELSE NextRequest(item, code, ref, pending_texts)

\* a manifest response: its Text elements in document order
Entries == [tipo : Tipos, url : Urls]
Manifests == SeqsUpTo(Entries, MaxEntries)

RECURSIVE FirstTipo(_)
\* xpath('//TipoDocumento/text()').extract_first(): the first tag of the whole
\* response, whichever element it is asked on; "absent" is None
FirstTipo(m) ==
    IF m = <<>> THEN "absent"
    ELSE IF Head(m).tipo # "absent" THEN Head(m).tipo
    ELSE FirstTipo(Tail(m))

\* xpath('//UrlTexto/text()').extract_first(): the first URL of the whole response
FirstUrl(m) == Head(m).url

\* line 89: <str>.lower == 'pdf' compares the bound method with a str
LowerEqualsPdf(tipo) == FALSE

\* parse_texts, lines 86-90: the tuple built, or the AttributeError of None.lower
ParseTextsPending(m) ==
    IF m # <<>> /\ FirstTipo(m) = "absent"
    THEN [raised |-> TRUE, pending |-> <<>>]
    ELSE [raised |-> FALSE,
          pending |-> LET kept == SelectSeq(m, LAMBDA e : LowerEqualsPdf(FirstTipo(m)))
                      IN  [i \in 1..Len(kept) |-> FirstUrl(m)]]

\* BillSpider.error(failure): the errback yields nothing
error(request) == {}

----------------------------------------------------------------------------
(* AgendaSenadoSpider                                                      *)
(* A string is a sequence of tokens.  The raw text of an event is a        *)
(* sequence over subject codes, a look-alike code, the space, a digit and  *)
(* one other character; a description is a sequence of headings, line      *)
(* breaks and text pieces.                                                 *)

\* extract_first(): a string or None
PyNone == [present |-> FALSE, str |-> <<>>]
Some(str) == [present |-> TRUE, str |-> str]

\* x or ''
OrEmpty(x) == IF x.present THEN x.str ELSE <<>>

\* {x} inside an f-string
Format(x) == IF x.present THEN x.str ELSE <<"None">>

RECURSIVE JoinBy(_, _)
\* sep.join(ss)
JoinBy(sep, ss) ==
    IF ss = <<>> THEN <<>>
    ELSE IF Len(ss) = 1 THEN ss[1]
    ELSE ss[1] \o sep \o JoinBy(sep, Tail(ss))

TextTokens == {"PLS", "PLC", "PEC", "PLX", " ", "1", "x"}
Digits == {"1"}

\* mutant of MatchesAt: the space between code and number is required
MatchesAt_SpaceRequired(subject, text, i) ==
    /\ text[i] = subject
    /\ i + 2 <= Len(text) /\ text[i + 1] = " " /\ text[i + 2] \in Digits

\* the pattern '{subject} ?\d+' matches at position i: the code, then the
\* space if there is one, then a digit; without a digit there, the match is
\* retried without the space
MatchesAt(subject, text, i) ==
    /\ text[i] = subject
    /\ LET j == IF i + 1 <= Len(text) /\ text[i + 1] = " " THEN i + 2 ELSE i + 1
       IN  \/ j <= Len(text) /\ text[j] \in Digits
           \/ j = i + 2 /\ text[i + 1] \in Digits

RECURSIVE FindAll(_, _, _)
\* re.findall(pattern, text) from position i on: is there a match
FindAll(subject, text, i) ==
    IF i > Len(text) THEN FALSE
    ELSE IF MatchesAt(subject, text, i) THEN TRUE
    ELSE FindAll(subject, text, i + 1)

RECURSIVE RelatedFrom(_, _)
\* the loop of is_related_to_a_bill from the k-th subject on
RelatedFrom(text, k) ==
    IF k > Len(subjects) THEN FALSE
    ELSE IF FindAll(subjects[k], text, 1) THEN TRUE
    ELSE RelatedFrom(text, k + 1)

\* is_related_to_a_bill, lines 148-153
is_related_to_a_bill(ev) == RelatedFrom(ev.text, 1)

\* parse_invitees, lines 183-188: one line per invitee
parse_invitees(ev) ==
    [i \in DOMAIN ev.invitees |->
        <<"* ">> \o Format(ev.invitees[i].name) \o <<" (">>
                \o Format(ev.invitees[i].title) \o <<")">>]

\* lines 163-178: the four fragments, each under its heading unless empty
Objective(ev) ==
    LET objective == OrEmpty(ev.objective)
    IN  IF objective # <<>> THEN <<"**Finalidade**", "\n">> \o objective ELSE objective

Observations(ev) ==
    LET ps == OrEmpty(ev.ps)
    IN  IF ps # <<>> THEN <<"**Observações**", "\n">> \o ps ELSE ps

Invitees(ev) ==
    LET invitees == parse_invitees(ev)
    IN  IF invitees # <<>>
        THEN <<"**Convidados**", "\n", "\n">> \o JoinBy(<<"\n">>, invitees)
        ELSE <<>>

Items(ev) ==
    LET items == JoinBy(<<", ">>, ev.items)
    IN  IF items # <<>> THEN <<"**Pauta**", "\n", " ">> \o items ELSE items

\* mutant of parse_description: the empty fragments are joined in as well
parse_description_Unfiltered(ev) ==
    JoinBy(<<"\n", "\n">>, <<Objective(ev), Items(ev), Observations(ev), Invitees(ev)>>)

\* parse_description, lines 162-181
parse_description(ev) ==
    LET contents == SelectSeq(<<Objective(ev), Items(ev), Observations(ev), Invitees(ev)>>,
                              LAMBDA text : text # <<>>)
    IN  JoinBy(<<"\n", "\n">>, contents)

\* parse, lines 139-146: what one Reuniao element makes the callback yield
AgendaParseEvent(ev) ==
    IF is_related_to_a_bill(ev)
    THEN <<[origem |-> "SE", descricao |-> parse_description(ev)]>>
    ELSE <<>>

\* an agenda event nothing is known of
NoEvent == [text |-> <<>>, objective |-> PyNone, ps |-> PyNone,
            invitees |-> <<>>, items |-> <<>>]

\* the events considered: every raw text with no fragment, and every choice of
\* fragments under a raw text that names a bill and under one that does not
EventParts ==
    [objective : {PyNone, Some(<<"Discuss budget">>)},
     ps : {PyNone, Some(<<"obs">>)},
     invitees : SeqsUpTo([name : {PyNone, Some(<<"Ana">>)}, title : {Some(<<"Sen">>)}],
                         MaxInvitees),
     items : SeqsUpTo({<<"PLS 1">>, <<"x">>}, MaxItems)]

WithText(parts, text) ==
    [text |-> text, objective |-> parts.objective, ps |-> parts.ps,
     invitees |-> parts.invitees, items |-> parts.items]

AgendaEvents ==
    {WithText(NoEvent, t) : t \in SeqsUpTo(TextTokens, MaxText)}
    \cup {WithText(p, t) : p \in EventParts, t \in {<<"PLS", "1">>, <<"x">>}}

----------------------------------------------------------------------------
(* State machine                                                           *)

Unset == [set |-> FALSE, q |-> <<>>]
NoManifest == [code |-> NoRef, doc |-> <<>>]

\* the bill spider before start_requests, whatever the dates
InitBills ==
    /\ started = FALSE
    /\ inflight = {}
    /\ bill = [c \in Codes |-> NoItem]
    /\ matchers \in SUBSET Vocabulary
    /\ out = [c \in Codes |-> <<>>]
    /\ fin = [c \in Codes |-> 0]
    /\ failed = [c \in Codes |-> FALSE]
    /\ crashed = [c \in Codes |-> FALSE]
    /\ found = [c \in Codes |-> [detail |-> {}, all |-> {}]]
    /\ initq = [c \in Codes |-> Unset]
    /\ npdf = [c \in Codes |-> 0]
    /\ manifest = NoManifest
    /\ yielded = <<>>

\* the agenda feed before its response arrives
AgendaIdle == [parsed |-> FALSE, related |-> FALSE, events |-> <<>>]

Init ==
    /\ InitBills
    /\ start_year = StartYear
    /\ today_year = CurrentYear
    /\ event = NoEvent
    /\ agenda = AgendaIdle

\* the engine consumes start_requests
StartRequests ==
    /\ ~started
    /\ started' = TRUE
    /\ inflight' = inflight \cup StartRequestsSet
    /\ yielded' = StartRequestsSeq
    /\ UNCHANGED <<bill, matchers, out, fin, failed, crashed, found, initq, npdf,
                   manifest, start_year, today_year, agenda_vars>>

\* a list response is dispatched to parse
Parse ==
    \E r \in inflight :
        /\ r.callback = "parse"
        /\ inflight' = (inflight \ {r}) \cup ParseRequests(Catalog(r.url[2], r.url[3]))
        /\ UNCHANGED <<started, bill, matchers, out, fin, failed, crashed, found,
                       initq, npdf, manifest, start_year, today_year, yielded, agenda_vars>>

\* a detail response is dispatched to parse_bill
ParseBill ==
    \E r \in inflight : \E description, keywords \in Texts :
        /\ r.callback = "parse_bill"
        /\ bill' = [bill EXCEPT ![BillRef(r.code)] =
                        ParseBillData(r.code, description, keywords)]
        /\ found' = [found EXCEPT ![r.code] =
                         LET ks == MatchKeywords(description) \cup MatchKeywords(keywords)
                         IN  [detail |-> ks, all |-> ks]]
        /\ inflight' = (inflight \ {r}) \cup ParseBillRequests(r.code, BillRef(r.code))
        /\ UNCHANGED <<started, matchers, out, fin, failed, crashed, initq, npdf, manifest, start_year, today_year, yielded, agenda_vars>>

\* an authorship response is dispatched to parse_authorship
ParseAuthorship ==
    \E r \in inflight :
        /\ r.callback = "parse_authorship"
        /\ bill' = [bill EXCEPT ![r.bill] = ParseAuthorshipData(@)]
        /\ inflight' = (inflight \ {r}) \cup ParseAuthorshipRequests(r.code, r.bill)
        /\ UNCHANGED <<started, matchers, out, fin, failed, crashed, found, initq,
                       npdf, manifest, start_year, today_year, yielded, agenda_vars>>

\* yield self.next_pdf_or_item(response, pending_texts), lines 91 and 101, for the
\* response of request r whose item dict is data by now
Continue(r, data, pending_texts) ==
    \E o \in NextPdfOrItem(data, r.code, r.bill, pending_texts) :
        /\ bill' = [bill EXCEPT ![r.bill] = o.item]
        /\ inflight' = (inflight \ {r}) \cup o.reqs
        /\ out' = [out EXCEPT ![r.code] =
                       IF o.kind = "Bill" THEN Append(@, o.item) ELSE @]
        /\ fin' = [fin EXCEPT ![r.code] =
                       IF o.kind \in {"Bill", "None"} THEN @ + 1 ELSE @]

\* a manifest response is dispatched to parse_texts
ParseTexts ==
    \E r \in inflight : \E m \in Manifests :
        /\ r.callback = "parse_texts"
        /\ manifest' = [code |-> r.code, doc |-> m]
        /\ LET p == ParseTextsPending(m)
           IN  IF p.raised
               THEN /\ crashed' = [crashed EXCEPT ![r.code] = TRUE]
                    /\ inflight' = inflight \ {r}
                    /\ UNCHANGED <<bill, out, fin, initq>>
               ELSE /\ Continue(r, bill[r.bill], p.pending)
                    /\ initq' = [initq EXCEPT ![r.code] = [set |-> TRUE, q |-> p.pending]]
                    /\ UNCHANGED crashed
        /\ UNCHANGED <<started, matchers, failed, found, npdf, start_year, today_year,
                       yielded, agenda_vars>>

\* the call of line 91 with pending_texts ranging over every tuple of up to
\* MaxQueue URLs.  parse_texts as written (ParseTexts) can only pass the empty
\* tuple, so the drain loop of parse_pdf / next_pdf_or_item is reachable only
\* from here: SpecQueued states what those two handlers do for any queue.
ParseTextsQueued ==
    \E r \in inflight : \E q \in SeqsUpTo(Urls, MaxQueue) :
        /\ r.callback = "parse_texts"
        /\ Continue(r, bill[r.bill], q)
        /\ initq' = [initq EXCEPT ![r.code] = [set |-> TRUE, q |-> q]]
        /\ UNCHANGED <<started, matchers, failed, crashed, found, npdf, manifest, start_year, today_year, yielded, agenda_vars>>

\* a PDF response is dispatched to parse_pdf
ParsePdf ==
    \E r \in inflight : \E text \in Texts :
        /\ r.callback = "parse_pdf"
        /\ Continue(r, ParsePdfData(bill[r.bill], text), r.urls)
        /\ found' = [found EXCEPT ![r.code].all = @ \cup MatchKeywords(text)]
        /\ npdf' = [npdf EXCEPT ![r.code] = @ + 1]
        /\ UNCHANGED <<started, matchers, failed, crashed, initq, manifest, start_year, today_year, yielded, agenda_vars>>

\* the fetch of a request fails: its errback, if any, is called instead of its callback
FetchFail ==
    \E r \in inflight :
        /\ inflight' = (inflight \ {r}) \cup (IF r.errback = "error" THEN error(r) ELSE {})
        /\ failed' = IF r.code = NoRef THEN failed ELSE [failed EXCEPT ![r.code] = TRUE]
        /\ UNCHANGED <<started, bill, matchers, out, fin, crashed, found, initq,
                       npdf, manifest, start_year, today_year, yielded, agenda_vars>>

\* the spider as written
Next ==
    \/ StartRequests
    \/ Parse
    \/ ParseBill
    \/ ParseAuthorship
    \/ ParseTexts
    \/ FetchFail

Spec == Init /\ [][Next]_vars

\* the spider with next_pdf_or_item called from the manifest stage on every
\* pending-text tuple (the empty one, which is all Spec ever passes, included)
NextQueued ==
    \/ StartRequests
    \/ Parse
    \/ ParseBill
    \/ ParseAuthorship
    \/ ParseTextsQueued
    \/ ParsePdf
    \/ FetchFail

SpecQueued == Init /\ [][NextQueued]_vars

\* discovery over every start year and current year of a MaxYears window
InitDiscovery ==
    /\ InitBills
    /\ start_year \in StartYear..(StartYear + MaxYears - 1)
    /\ today_year \in start_year..(StartYear + MaxYears - 1)
    /\ event = NoEvent
    /\ agenda = AgendaIdle

\* the list stage: start_requests, parse and the failures of their requests
NextDiscovery ==
    \/ StartRequests
    \/ Parse
    \/ FetchFail

SpecDiscovery == InitDiscovery /\ [][NextDiscovery]_vars

\* the agenda feed with one event of its response
InitAgenda ==
    /\ InitBills
    /\ matchers = {}
    /\ start_year = StartYear
    /\ today_year = CurrentYear
    /\ event \in AgendaEvents
    /\ agenda = AgendaIdle

\* the event is dispatched to AgendaSenadoSpider.parse
AgendaParse ==
    /\ ~agenda.parsed
    /\ agenda' = [parsed |-> TRUE, related |-> is_related_to_a_bill(event),
                  events |-> AgendaParseEvent(event)]
    /\ UNCHANGED <<started, inflight, bill, matchers, out, fin, failed, crashed, found,
                   initq, npdf, manifest, start_year, today_year, yielded, event>>

NextAgenda == AgendaParse

SpecAgenda == InitAgenda /\ [][NextAgenda]_vars

----------------------------------------------------------------------------
(* Claims                                                                  *)

\* the requests of bill c the transport holds
InFlightOf(c) == {r \in inflight : r.code = c}

\* every keyword the matcher found in a text of bill c so far
FoundAll(c) == found[c].all

\* C1: a bill is finalized (emitted or discarded) at most once, and only when
\* its pending text queue is empty: every URL of the tuple the manifest stage
\* passed on has been fetched and scanned and no request of the bill is left;
\* nothing is emitted without a finalization.
C1_FinalizedOnceWhenDrained ==
    \A c \in Codes :
        /\ fin[c] <= 1
        /\ Len(out[c]) <= fin[c]
        /\ fin[c] = 1 =>
              /\ initq[c].set
              /\ npdf[c] = Len(initq[c].q)
              /\ InFlightOf(c) = {}

\* C1 witness: a bill with two queued PDFs has been finalized and emitted
C1_Witness ==
    \E c \in Codes : fin[c] = 1 /\ Len(initq[c].q) >= 2 /\ out[c] # <<>>

\* C2: with keyword filtering configured, a bill none of whose scanned texts
\* (description, keyword index, PDFs) matched a keyword is never emitted.
C2_NoMatchNeverEmitted ==
    matchers # {} => \A c \in Codes : FoundAll(c) = {} => out[c] = <<>>

\* C2 witness: filtering is on and a bill was discarded after a PDF scan
C2_Witness ==
    /\ matchers # {}
    /\ \E c \in Codes : fin[c] = 1 /\ npdf[c] >= 1 /\ FoundAll(c) = {} /\ out[c] = <<>>

\* C3: with no keyword filtering configured, every bill that reaches the end of
\* its PDF queue is emitted, also one whose keyword set is empty.
C3_UnfilteredAlwaysEmitted ==
    matchers = {} => \A c \in Codes : fin[c] >= 1 => Len(out[c]) = fin[c]

\* C3 witness: filtering is off and a bill with an empty keyword string was
\* emitted after a PDF scan
C3_Witness ==
    /\ matchers = {}
    /\ \E c \in Codes :
          /\ npdf[c] >= 1
          /\ out[c] # <<>>
          /\ out[c][1].palavras_chave = PyStr(<<>>)

\* str.lower() on the TipoDocumento values
Lower(tipo) == IF tipo = "PDF" THEN "pdf" ELSE tipo

\* the entry's own type tag denotes PDF
DenotesPdf(entry) == Lower(entry.tipo) = "pdf"

RECURSIVE PdfUrls(_)
\* the own URLs of the entries whose own type tag denotes PDF, in document order
PdfUrls(m) ==
    IF m = <<>> THEN <<>>
    ELSE IF DenotesPdf(Head(m)) THEN <<Head(m).url>> \o PdfUrls(Tail(m))
    ELSE PdfUrls(Tail(m))

\* C4 (as claimed): the pending text queue parse_texts builds holds exactly the
\* URLs of the manifest entries whose own type tag denotes PDF, so k PDF entries
\* give a queue of length k.
C4_QueueIsPdfEntries ==
    \A c \in Codes :
        (manifest.code = c /\ initq[c].set) => initq[c].q = PdfUrls(manifest.doc)

\* C5: the keywords an emitted bill's serialized palavras_chave lists are exactly
\* the union of the matcher's results over its description, its keyword index
\* and every PDF of its queue, all of which have been scanned by then.
C5_EmittedKeywordsAreUnion ==
    \A c \in Codes : \A i \in DOMAIN out[c] :
        /\ out[c][i].palavras_chave.type = "str"
        /\ Split(out[c][i].palavras_chave.str) = found[c].all
        /\ npdf[c] = Len(initq[c].q)

\* C5 witness: an emitted bill whose keywords come partly from the detail texts
\* and partly from a PDF
C5_Witness ==
    \E c \in Codes :
        /\ out[c] # <<>>
        /\ npdf[c] >= 1
        /\ found[c].detail # {}
        /\ found[c].all \ found[c].detail # {}

\* C6: no step removes a keyword from a bill's matched-keyword set, from the
\* detail stage up to and including its serialization at finalization.
C6_KeywordsMonotone ==
    [][\A c \in Codes :
          KeywordsOf(bill[c].palavras_chave) \subseteq KeywordsOf(bill'[c].palavras_chave)]_vars

\* C6 witness: a record not yet finalized whose set a PDF scan has enlarged
C6_Witness ==
    \E c \in Codes :
        /\ bill[c].palavras_chave.type = "set"
        /\ npdf[c] >= 1
        /\ found[c].detail # {}
        /\ found[c].detail # found[c].all
        /\ bill[c].palavras_chave.set = found[c].all

Max(a, b) == IF a >= b THEN a ELSE b

RECURSIVE SumPending(_)
\* number of URLs a set of PDF requests stands for: the one requested plus the
\* forwarded rest, for each
SumPending(rs) ==
    IF rs = {} THEN 0
    ELSE LET r == CHOOSE x \in rs : TRUE
         IN  1 + Len(r.urls) + SumPending(rs \ {r})

\* the PDF requests of bill c the transport holds
PdfInFlight(c) == {r \in inflight : r.code = c /\ r.callback = "parse_pdf"}

\* the URLs of bill c not yet fetched and scanned
PendingLen(c) == SumPending(PdfInFlight(c))

\* C7: once the manifest stage has passed on a queue of length L, the queue of
\* a bill whose fetches succeed holds max(L - N, 0) URLs after N parse_pdf
\* invocations.
C7_QueueDrainsOnePerPdf ==
    \A c \in Codes :
        (initq[c].set /\ ~failed[c]) =>
            PendingLen(c) = Max(Len(initq[c].q) - npdf[c], 0)

\* C7 witness: a queue of two URLs after one invocation, and after two
C7_Witness ==
    /\ \E c \in Codes : Len(initq[c].q) = 2 /\ npdf[c] = 1 /\ PendingLen(c) = 1
    /\ \E c \in Codes : Len(initq[c].q) = 2 /\ npdf[c] = 2 /\ PendingLen(c) = 0

\* C8: a bill never has more than one PDF fetch in flight, and a PDF request of
\* a bill is issued only by the step that handles that bill's manifest response
\* or its previous PDF response.
C8_OnePdfInFlight ==
    [][\A c \in Codes :
          /\ Cardinality(PdfInFlight(c)) <= 1
          /\ Cardinality(PdfInFlight(c)') <= 1
          /\ PdfInFlight(c)' \ PdfInFlight(c) # {} =>
                \E r \in inflight \ inflight' :
                    r.code = c /\ r.callback \in {"parse_texts", "parse_pdf"}]_vars

\* C8 witness: the second PDF of a bill is in flight, its first one scanned
C8_Witness ==
    \E c \in Codes : npdf[c] = 1 /\ Cardinality(PdfInFlight(c)) = 1

\* C9: once a fetch of a bill's chain has failed, no request of that bill is
\* left or issued, the bill is never finalized and no record of it is emitted;
\* the failure changes nothing of any other bill.
C9_FailureEndsOnlyThatBill ==
    [][\A c \in Codes :
          /\ failed'[c] => InFlightOf(c)' = {} /\ out'[c] = <<>> /\ fin'[c] = 0
          /\ (failed'[c] /\ ~failed[c]) =>
                \A d \in Codes \ {c} :
                    /\ InFlightOf(d)' = InFlightOf(d)
                    /\ bill'[d] = bill[d]
                    /\ out'[d] = out[d]
                    /\ fin'[d] = fin[d]
                    /\ failed'[d] = failed[d]]_vars

\* C9 witness: one bill dropped by a failed PDF fetch, its sibling emitted
C9_Witness ==
    \E c, d \in Codes :
        /\ c # d
        /\ failed[c] /\ npdf[c] >= 1 /\ out[c] = <<>>
        /\ ~failed[d] /\ out[d] # <<>>

\* C10: a step changes the record, the requests or the output of a bill only if
\* it handles a response or failure of that bill's own request, and what a
\* bill emits is decided by its own texts alone.
C10_BillsIsolated ==
    [][\A c \in Codes :
          /\ (bill'[c] # bill[c] \/ InFlightOf(c)' # InFlightOf(c) \/ out'[c] # out[c])
                => \E r \in inflight \ inflight' :
                      r.code = c \/ (r.callback = "parse" /\ c \in Catalog(r.url[2], r.url[3]))
          /\ \A i \in DOMAIN out'[c] :
                /\ out'[c][i].id_site = c
                /\ KeywordsOf(out'[c][i].palavras_chave) = found'[c].all]_vars

\* C10 witness: both bills are in their PDF stage at once, with different
\* keyword sets
C10_Witness ==
    \E c, d \in Codes :
        /\ c # d
        /\ PdfInFlight(c) # {} /\ PdfInFlight(d) # {}
        /\ npdf[c] >= 1
        /\ bill[c].palavras_chave # bill[d].palavras_chave

\* C13: start_requests yields exactly one list request per (year, subject) pair
\* for every year from the start year to the current year and each of the three
\* subjects, all pairs distinct: (current_year - start_year + 1) * 3 requests.
C13_OneListRequestPerPair ==
    started =>
        /\ Len(yielded) = (today_year - start_year + 1) * 3
        /\ \A i, j \in DOMAIN yielded : i # j => yielded[i].url # yielded[j].url
        /\ {yielded[i].url : i \in DOMAIN yielded} =
              {<<"list", sj, y>> : sj \in {"PLS", "PLC", "PEC"}, y \in start_year..today_year}
        /\ \A i \in DOMAIN yielded : yielded[i].callback = "parse"

\* C13 witness: start year 2020, current year 2022, nine requests
C13_Witness ==
    started /\ start_year = 2020 /\ today_year = 2022 /\ Len(yielded) = 9

\* the request r, consumed by a step, is the one whose response lets the request
\* n of bill c be issued next: list before detail, detail before authorship,
\* authorship before manifest, manifest or PDF before PDF, each stage not yet done
Precedes(r, n, c) ==
    CASE n.callback = "parse_bill" ->
            /\ r.callback = "parse" /\ c \in Catalog(r.url[2], r.url[3])
            /\ bill[c] = NoItem
      [] n.callback = "parse_authorship" ->
            /\ r.callback = "parse_bill" /\ r.code = c
            /\ bill[c] = NoItem
      [] n.callback = "parse_texts" ->
            /\ r.callback = "parse_authorship" /\ r.code = c
            /\ bill[c].id_site = c /\ ~bill[c].autoria
      [] n.callback = "parse_pdf" ->
            /\ r.callback \in {"parse_texts", "parse_pdf"} /\ r.code = c
            /\ bill[c].autoria
            /\ r.callback = "parse_texts" => ~initq[c].set
      [] OTHER -> FALSE

\* C11: the fetches of one bill are strictly sequential, in the order detail,
\* authorship, manifest, PDFs: a bill never has two requests in flight, and a
\* request of a stage is issued only by the step that parses the response of
\* the stage before it, which has not been parsed before.
C11_StagesSequential ==
    [][\A c \in Codes :
          /\ Cardinality(InFlightOf(c)') <= 1
          /\ \A n \in InFlightOf(c)' \ InFlightOf(c) :
                /\ ~failed'[c]
                /\ \E r \in inflight \ inflight' : Precedes(r, n, c)]_vars

\* C11 witness: a bill that went through detail, authorship, manifest and two
\* PDFs and was emitted
C11_Witness ==
    \E c \in Codes :
        /\ bill[c].id_site = c /\ bill[c].autoria
        /\ initq[c].set /\ npdf[c] = 2 /\ fin[c] = 1 /\ out[c] # <<>>

\* the follow-up a stage must request
FollowUp(callback) ==
    IF callback = "parse_bill" THEN "parse_authorship" ELSE "parse_texts"

\* C12: the step that parses a detail response issues exactly one request, the
\* authorship fetch of that bill; the step that parses an authorship response
\* issues exactly one, its manifest fetch; neither emits or discards anything.
C12_OneFollowUpRequest ==
    [][\A r \in inflight \ inflight' :
          (r.callback \in {"parse_bill", "parse_authorship"} /\ failed'[r.code] = failed[r.code])
            => /\ Cardinality(inflight' \ inflight) = 1
               /\ \A n \in inflight' \ inflight :
                     n.callback = FollowUp(r.callback) /\ n.code = r.code
               /\ out' = out
               /\ fin' = fin]_vars

\* C12 witness: a bill whose manifest fetch is in flight, nothing finalized
C12_Witness ==
    \E c \in Codes :
        /\ \E r \in InFlightOf(c) : r.callback = "parse_texts"
        /\ bill[c].autoria
        /\ fin[c] = 0 /\ out[c] = <<>>

\* C17: the step that parses a manifest response finalizes the bill at once when
\* the queue it built is empty, without any PDF request and deciding on the
\* keywords of description and keyword index alone; when the queue is not empty
\* it issues exactly one request, for the first queued URL, and finalizes nothing.
C17_ManifestStepFinalizesOrFetchesFirst ==
    [][\A r \in inflight \ inflight' :
          (/\ r.callback = "parse_texts"
           /\ failed'[r.code] = failed[r.code]
           /\ crashed'[r.code] = crashed[r.code])
            => LET c == r.code
                   q == initq'[c].q
               IN  /\ initq'[c].set
                   /\ npdf'[c] = 0
                   /\ q = <<>> =>
                         /\ fin'[c] = fin[c] + 1
                         /\ inflight' \ inflight = {}
                         /\ out'[c] # <<>> <=> (matchers = {} \/ found[c].detail # {})
                         /\ \A i \in DOMAIN out'[c] :
                               KeywordsOf(out'[c][i].palavras_chave) = found[c].detail
                   /\ q # <<>> =>
                         /\ fin'[c] = fin[c]
                         /\ out'[c] = out[c]
                         /\ Cardinality(inflight' \ inflight) = 1
                         /\ \A n \in inflight' \ inflight :
                               /\ n.callback = "parse_pdf"
                               /\ n.code = c
                               /\ n.url = <<"pdf", q[1]>>]_vars

\* C17 witness: one bill finalized by its manifest step on an empty queue, the
\* other with the first of two different queued URLs in flight
C17_Witness ==
    \E c, d \in Codes :
        /\ initq[c].set /\ initq[c].q = <<>> /\ fin[c] = 1 /\ npdf[c] = 0
        /\ Len(initq[d].q) = 2 /\ initq[d].q[1] # initq[d].q[2]
        /\ npdf[d] = 0 /\ fin[d] = 0
        /\ \E r \in PdfInFlight(d) : r.url = <<"pdf", initq[d].q[1]>>

\* C18: the PDFs of a bill are fetched in queue order, each queued URL once:
\* after N scans the request in flight is for the (N+1)-th URL of the initial
\* queue and forwards the URLs after it, and a bill is finalized only after as
\* many scans as the queue is long.
C18_FetchedInQueueOrder ==
    \A c \in Codes :
        /\ \A r \in PdfInFlight(c) :
              /\ initq[c].set
              /\ npdf[c] < Len(initq[c].q)
              /\ r.url = <<"pdf", initq[c].q[npdf[c] + 1]>>
              /\ r.urls = SubSeq(initq[c].q, npdf[c] + 2, Len(initq[c].q))
        /\ Cardinality(PdfInFlight(c)) <= 1
        /\ fin[c] >= 1 => npdf[c] = Len(initq[c].q)

\* C18 witness: the second of two different queued URLs is in flight after the
\* first was scanned
C18_Witness ==
    \E c \in Codes :
        /\ Len(initq[c].q) = 2 /\ initq[c].q[1] # initq[c].q[2]
        /\ npdf[c] = 1
        /\ \E r \in PdfInFlight(c) : r.url = <<"pdf", initq[c].q[2]>> /\ r.urls = <<>>

\* C16 (as claimed): the serialized keyword string of a bill is fixed by its
\* inputs: finalizing a record built from given texts can give one string only
\* (the keywords in the order they were first found), whichever run does it.
C16_SerializationStable ==
    \A c \in Codes :
        (bill[c].id_site = c /\ bill[c].palavras_chave.type = "set") =>
            Cardinality({o.item.palavras_chave.str : o \in Finalize(bill[c])}) = 1

Headings == {"**Finalidade**", "**Pauta**", "**Observações**", "**Convidados**"}

\* the fragment under its heading and after the blank line that parts it from
\* what the description holds so far
AddSection(sofar, heading, body) ==
    IF body = <<>> THEN sofar
    ELSE (IF sofar = <<>> THEN <<>> ELSE sofar \o <<"\n", "\n">>) \o heading \o body

\* the description the contract asks for: objective, items, observations and
\* invitees, each left out when empty
Described(ev) ==
    LET s1 == AddSection(<<>>, <<"**Finalidade**", "\n">>, OrEmpty(ev.objective))
        s2 == AddSection(s1, <<"**Pauta**", "\n", " ">>, JoinBy(<<", ">>, ev.items))
        s3 == AddSection(s2, <<"**Observações**", "\n">>, OrEmpty(ev.ps))
    IN  AddSection(s3, <<"**Convidados**", "\n", "\n">>, JoinBy(<<"\n">>, parse_invitees(ev)))

\* the fragments of the event that are not empty
NonEmptyFragments(ev) ==
    (IF ev.objective.present THEN {"**Finalidade**"} ELSE {})
    \cup (IF ev.items # <<>> THEN {"**Pauta**"} ELSE {})
    \cup (IF ev.ps.present THEN {"**Observações**"} ELSE {})
    \cup (IF ev.invitees # <<>> THEN {"**Convidados**"} ELSE {})

\* C14: the description of an event holds the non-empty fragments under their
\* headings in the order objective, items, observations, invitees, parted by
\* one blank line; an empty fragment leaves neither heading nor separator (an
\* objective alone gives '**Finalidade**\nDiscuss budget', nothing gives '').
C14_DescriptionSections ==
    \A i \in DOMAIN agenda.events :
        LET d == agenda.events[i].descricao
            hs == SelectSeq(d, LAMBDA t : t \in Headings)
        IN  /\ d = Described(event)
            /\ {hs[k] : k \in DOMAIN hs} = NonEmptyFragments(event)
            /\ Len(hs) = Cardinality(NonEmptyFragments(event))
            /\ (d # <<>> => d[1] \in Headings /\ d[Len(d)] # "\n")
            /\ NonEmptyFragments(event) = {} => d = <<>>
            /\ (NonEmptyFragments(event) = {"**Finalidade**"}
                   /\ event.objective.str = <<"Discuss budget">>)
                  => d = <<"**Finalidade**", "\n", "Discuss budget">>

\* C14 witness: objective, items and invitees without observations give three
\* sections
C14_Witness ==
    /\ agenda.parsed /\ agenda.events # <<>>
    /\ NonEmptyFragments(event) = {"**Finalidade**", "**Pauta**", "**Convidados**"}
    /\ SelectSeq(agenda.events[1].descricao, LAMBDA t : t \in Headings)
          = <<"**Finalidade**", "**Pauta**", "**Convidados**">>

\* the raw text holds a subject code, then at most one space, then a digit
NamesABill(text) ==
    \E i \in DOMAIN text : \E sp \in {0, 1} :
        /\ text[i] \in {"PLS", "PLC", "PEC"}
        /\ i + sp + 1 <= Len(text)
        /\ sp = 1 => text[i + 1] = " "
        /\ text[i + sp + 1] \in Digits

\* C15: is_related_to_a_bill answers true exactly for the events whose raw text
\* holds a subject code followed by an optional single space and digits, and an
\* Event is built only for an event it answers true for.
C15_RelatedIffNamesABill ==
    agenda.parsed =>
        /\ agenda.related <=> NamesABill(event.text)
        /\ agenda.events # <<>> => agenda.related

\* C15 witness: a code and its number with no space between them, after a
\* look-alike code that is none
C15_Witness ==
    /\ agenda.parsed /\ agenda.related /\ agenda.events # <<>>
    /\ event.text = <<"PLX", " ", "PEC", "1">>

\* the list stage has come across the bill
Discovered(c) == bill[c].id_site = c \/ failed[c] \/ InFlightOf(c) # {}

\* how the pipeline of a bill has ended
Emitted(c) == out[c] # <<>>
Discarded(c) == fin[c] > 0 /\ out[c] = <<>>
Dropped(c) == failed[c]

\* C19 (as claimed): the pipeline of every discovered bill comes to an end in
\* exactly one of the outcomes emitted, discarded by the keyword filter and
\* dropped by a fetch failure, after at most as many PDF fetches as its initial
\* queue is long; a bill with no request left has reached one of them.
C19_EndsInOneOutcome ==
    \A c \in Codes :
        (Discovered(c) /\ InFlightOf(c) = {}) =>
            /\ Cardinality({k \in {"emitted", "discarded", "dropped"} :
                              \/ k = "emitted" /\ Emitted(c)
                              \/ k = "discarded" /\ Discarded(c)
                              \/ k = "dropped" /\ Dropped(c)}) = 1
            /\ initq[c].set => npdf[c] <= Len(initq[c].q)

\* C20 (as claimed): with keyword filtering enabled and no failed fetch, a bill
\* one of whose stages matched a keyword is emitted: once its pipeline has no
\* request left, its record is among the items.
C20_MatchedBillEmitted ==
    \A c \in Codes :
        (/\ matchers # {}
         /\ bill[c].id_site = c
         /\ found[c].all # {}
         /\ ~failed[c]
         /\ InFlightOf(c) = {}) => Emitted(c)

====
